---- MODULE Spec2Model ----
(***************************************************************************)
(* Smart File Management System: the scan / classify / reorganize engine   *)
(* (FileManager, FileSorter) over a small filesystem, and its pure helpers *)
(* (extractExtension, getCategoryForExtension).                            *)
(*                                                                         *)
(* std::string is a sequence of one-character strings; fs::path is a       *)
(* sequence of components (each a std::string), so "" is <<>> and          *)
(* "d/Others/" ends in an empty component, as in std::filesystem.          *)
(***************************************************************************)
EXTENDS Integers, Sequences, FiniteSets, TLC

VARIABLES
    fs,                  \* the filesystem: path -> node
    files,               \* FileManager::files, the scanned collection
    lastOp,              \* what ran last: "none", "scan", "organize", or "env"
                         \* when the environment changed the directory since
    scanRet,             \* value returned by scanDirectory, when it ran last
    extensionCategories, \* FileSorter::extensionCategories (std::map)
    logOpen,             \* Logger::logFile.is_open()
    log,                 \* lines the current (or last) operation appended to
                         \* file_manager.log; the file is append-only and never read
    pc,                  \* "idle", "scanning" inside scanDirectory, or
                         \* "organizing" inside organizeByExtension
    pending,             \* entries the directory_iterator has not yielded yet
    idx,                 \* position of the range-for over files
    movedCount,          \* local movedCount of organizeByExtension
    result,              \* value returned by organizeByExtension, when it ran last
    fs0,                 \* observer: fs when the current/last organize call began
    outcomes,            \* observer: what happened to each record of that call
    fn,                  \* pure-function harness: the function called, or "none"
    arg,                 \* pure-function harness: the input string
    ret,                 \* pure-function harness: the value returned
    menu,                \* where Menu::run is: "api" when the engine is driven
                         \* without the menu, else "prompt", a handler, or "exited"
    scanOutcome,         \* observer: how the last scanDirectory call ended:
                         \* "missing", "threw", "ok", or "none"
    scanFailed,          \* observer: some scanDirectory call returned 0 on an error
    logMutex,            \* Logger::logMutex: the thread that holds it, or "free"
    threadPc,            \* position of each thread inside Logger::log
    threadCalls,         \* calls of Logger::log each thread has completed
    currentDirectory,    \* Menu::currentDirectory
    targetDirectory      \* FileManager::targetDirectory of Menu::fileManager

vars == << fs, files, lastOp, scanRet, extensionCategories, logOpen, log, pc, pending,
           idx, movedCount, result, fs0, outcomes, fn, arg, ret, menu, scanOutcome,
           scanFailed, logMutex, threadPc, threadCalls, currentDirectory,
           targetDirectory >>

menuDirs == << currentDirectory, targetDirectory >>

threadVars == << logMutex, threadPc, threadCalls >>

engineVars == << fs, files, lastOp, scanRet, logOpen, log, pc, pending, idx, movedCount,
                 result, fs0, outcomes, menu, scanOutcome, scanFailed, threadVars, menuDirs >>

(***************************************************************************)
(* Bounds of the model.                                                    *)
(***************************************************************************)
MaxNameLen == 4      \* longest enumerated input string of the pure harness
MaxFiles == 2        \* regular files in the scanned directory at the start

(***************************************************************************)
(* Strings.                                                                *)
(***************************************************************************)
Upper == <<"A","B","C","D","E","F","G","H","I","J","K","L","M",
           "N","O","P","Q","R","S","T","U","V","W","X","Y","Z">>
Lower == <<"a","b","c","d","e","f","g","h","i","j","k","l","m",
           "n","o","p","q","r","s","t","u","v","w","x","y","z">>

\* ::tolower in the "C" locale: A-Z map to a-z, every other char is unchanged
tolower(c) ==
    IF \E i \in 1..26 : Upper[i] = c
    THEN Lower[CHOOSE i \in 1..26 : Upper[i] = c]
    ELSE c

\* std::transform(s.begin(), s.end(), s.begin(), ::tolower)
transformToLower(s) == [i \in 1..Len(s) |-> tolower(s[i])]

\* std::string::npos, the largest size_t (no string is that long)
npos == 2147483647

\* std::string::find_last_of(ch): 0-based position of the last ch, or npos
find_last_of(s, ch) ==
    IF \E i \in 1..Len(s) : s[i] = ch
    THEN (CHOOSE i \in 1..Len(s) :
              s[i] = ch /\ \A j \in (i+1)..Len(s) : s[j] # ch) - 1
    ELSE npos

\* std::string::substr(pos), pos <= size()
substr(s, pos) == SubSeq(s, pos + 1, Len(s))

(***************************************************************************)
(* FileManager::extractExtension                                           *)
(***************************************************************************)
\* the extension taken from the first '.' instead of the last
extractExtensionFirstDot(filename) ==
    LET dotPos == IF \E i \in 1..Len(filename) : filename[i] = "."
                  THEN (CHOOSE i \in 1..Len(filename) :
                            filename[i] = "." /\ \A j \in 1..(i-1) : filename[j] # ".") - 1
                  ELSE npos
    IN  IF dotPos # npos /\ dotPos > 0
        THEN transformToLower(substr(filename, dotPos))
        ELSE <<>>

\* the extension without the std::transform to lower case
extractExtensionNoLower(filename) ==
    LET dotPos == find_last_of(filename, ".")
    IN  IF dotPos # npos /\ dotPos > 0
        THEN substr(filename, dotPos)
        ELSE <<>>

extractExtension(filename) ==
    LET dotPos == find_last_of(filename, ".")
    IN  IF dotPos # npos /\ dotPos > 0
        THEN transformToLower(substr(filename, dotPos))
        ELSE <<>>

(***************************************************************************)
(* FileSorter: the category table and its lookup                           *)
(***************************************************************************)
Documents == <<"D","o","c","u","m","e","n","t","s">>
Images == <<"I","m","a","g","e","s">>
Videos == <<"V","i","d","e","o","s">>
Audio == <<"A","u","d","i","o">>
Archives == <<"A","r","c","h","i","v","e","s">>
Code == <<"C","o","d","e">>
Executables == <<"E","x","e","c","u","t","a","b","l","e","s">>
Others == <<"O","t","h","e","r","s">>

\* the statements of initializeCategories, in order: map[key] = value
CategoryAssignments ==
    <<
       << <<".","t","x","t">>, Documents >>,
       << <<".","p","d","f">>, Documents >>,
       << <<".","d","o","c">>, Documents >>,
       << <<".","d","o","c","x">>, Documents >>,
       << <<".","x","l","s","x">>, Documents >>,
       << <<".","x","l","s">>, Documents >>,
       << <<".","p","p","t">>, Documents >>,
       << <<".","p","p","t","x">>, Documents >>,
       << <<".","o","d","t">>, Documents >>,
       << <<".","r","t","f">>, Documents >>,
       << <<".","j","p","g">>, Images >>,
       << <<".","j","p","e","g">>, Images >>,
       << <<".","p","n","g">>, Images >>,
       << <<".","g","i","f">>, Images >>,
       << <<".","b","m","p">>, Images >>,
       << <<".","s","v","g">>, Images >>,
       << <<".","i","c","o">>, Images >>,
       << <<".","t","i","f","f">>, Images >>,
       << <<".","w","e","b","p">>, Images >>,
       << <<".","m","p","4">>, Videos >>,
       << <<".","a","v","i">>, Videos >>,
       << <<".","m","k","v">>, Videos >>,
       << <<".","m","o","v">>, Videos >>,
       << <<".","w","m","v">>, Videos >>,
       << <<".","f","l","v">>, Videos >>,
       << <<".","w","e","b","m">>, Videos >>,
       << <<".","m","4","v">>, Videos >>,
       << <<".","m","p","3">>, Audio >>,
       << <<".","w","a","v">>, Audio >>,
       << <<".","f","l","a","c">>, Audio >>,
       << <<".","a","a","c">>, Audio >>,
       << <<".","o","g","g">>, Audio >>,
       << <<".","w","m","a">>, Audio >>,
       << <<".","m","4","a">>, Audio >>,
       << <<".","z","i","p">>, Archives >>,
       << <<".","r","a","r">>, Archives >>,
       << <<".","7","z">>, Archives >>,
       << <<".","t","a","r">>, Archives >>,
       << <<".","g","z">>, Archives >>,
       << <<".","b","z","2">>, Archives >>,
       << <<".","x","z">>, Archives >>,
       << <<".","c","p","p">>, Code >>,
       << <<".","h">>, Code >>,
       << <<".","h","p","p">>, Code >>,
       << <<".","c">>, Code >>,
       << <<".","p","y">>, Code >>,
       << <<".","j","a","v","a">>, Code >>,
       << <<".","j","s">>, Code >>,
       << <<".","t","s">>, Code >>,
       << <<".","h","t","m","l">>, Code >>,
       << <<".","c","s","s">>, Code >>,
       << <<".","p","h","p">>, Code >>,
       << <<".","r","b">>, Code >>,
       << <<".","g","o">>, Code >>,
       << <<".","r","s">>, Code >>,
       << <<".","e","x","e">>, Executables >>,
       << <<".","d","l","l">>, Executables >>,
       << <<".","s","o">>, Executables >>,
       << <<".","a","p","p">>, Executables >>,
       << <<".","d","e","b">>, Executables >>,
       << <<".","r","p","m">>, Executables >>
    >>

\* std::map operator[] assignment: inserts the key or overwrites its value
MapAssign(m, k, v) ==
    [x \in (DOMAIN m) \cup {k} |-> IF x = k THEN v ELSE m[x]]

\* the map after the assignments run in order: each key holds the value of
\* the last assignment to it
initializeCategories ==
    LET as == CategoryAssignments
        LastOf(k) == CHOOSE i \in 1..Len(as) :
                        as[i][1] = k /\ \A j \in (i+1)..Len(as) : as[j][1] # k
    IN  [k \in { as[i][1] : i \in 1..Len(as) } |-> as[LastOf(k)][2]]

\* The lookup returns the category and the map it leaves behind.
\* operator[] instead of find(): a miss inserts the key with an empty value
getCategoryBracket(map, extension) ==
    IF extension \in DOMAIN map
    THEN [category |-> map[extension], map |-> map]
    ELSE [category |-> <<>>, map |-> MapAssign(map, extension, <<>>)]

getCategoryForExtension(map, extension) ==
    IF extension \in DOMAIN map
    THEN [category |-> map[extension], map |-> map]
    ELSE [category |-> Others, map |-> map]

(***************************************************************************)
(* The filesystem.                                                         *)
(***************************************************************************)
Base == <<"d">>                      \* the name of the managed directory
baseDirectory == <<Base>>            \* currentDirectory / targetDirectory

a_txt == <<"a",".","t","x","t">>
a_TXT == <<"a",".","T","X","T">>

\* names a regular file of the directory may have: two that differ in the
\* letter case of the extension, and a file named like a category folder
NamePool == { a_txt, a_TXT, Others }

\* the size of the file of each name (one of them is an empty file)
SizeOf(name) == IF name = a_TXT THEN 0 ELSE 10

Absent == [kind |-> "absent"]
DirNode == [kind |-> "dir"]
FileNode(size, content) == [kind |-> "file", size |-> size, content |-> content]

CategoryOf(name) ==
    getCategoryForExtension(initializeCategories, extractExtension(name)).category

UsedCategories == { CategoryOf(n) : n \in NamePool }

\* another directory, with nothing in it, the user may change to
OtherDirectory == << <<"e">> >>

Paths ==
    { baseDirectory, OtherDirectory }
        \cup { baseDirectory \o <<c>> : c \in NamePool \cup UsedCategories }
        \cup { baseDirectory \o <<d, c>> : d \in UsedCategories, c \in NamePool }

Last(p) == p[Len(p)]
Front(p) == SubSeq(p, 1, Len(p) - 1)

NodeAt(fsv, p) == IF p \in DOMAIN fsv THEN fsv[p] ELSE Absent
IsDir(fsv, p) == NodeAt(fsv, p).kind = "dir"
IsFile(fsv, p) == NodeAt(fsv, p).kind = "file"

\* fs::exists(p): status(p) is neither not_found nor an error. "" never
\* exists; a trailing slash ("d/Others/") resolves only through a directory
exists(fsv, p) ==
    IF p = <<>> THEN FALSE
    ELSE IF Last(p) = <<>> THEN IsDir(fsv, Front(p))
    ELSE NodeAt(fsv, p).kind # "absent"

\* fs::create_directories(p): mkdir -p; fails under a non-directory
CanCreateDirectories(fsv, p) ==
    \A n \in 1..Len(p) : NodeAt(fsv, SubSeq(p, 1, n)).kind \in {"absent", "dir"}

create_directories(fsv, p) ==
    [q \in DOMAIN fsv |->
        IF Len(q) <= Len(p) /\ q = SubSeq(p, 1, Len(q)) /\ fsv[q] = Absent
        THEN DirNode ELSE fsv[q]]

\* fs::rename(from, to) of a regular file: the error rename(2) must give, or "ok"
renameError(fsv, from, to) ==
    IF ~IsFile(fsv, from) THEN "ENOENT"
    ELSE IF to = <<>> THEN "ENOENT"
    ELSE IF ~IsDir(fsv, Front(to)) THEN "ENOTDIR"
    ELSE IF Last(to) = <<>> THEN "ENOTDIR"
    ELSE IF IsDir(fsv, to) THEN "EISDIR"
    ELSE "ok"

\* the effect of a successful rename: one atomic directory-entry update,
\* replacing a regular file already at `to`
rename(fsv, from, to) ==
    [fsv EXCEPT ![to] = fsv[from], ![from] = Absent]

(***************************************************************************)
(* Logger::log: a line is appended only while the log file is open         *)
(***************************************************************************)
\* the line written whether the file is open or not
LoggerLogUnguarded(isOpen, lines, entries) == lines \o entries

LoggerLog(isOpen, lines, entries) ==
    IF isOpen THEN lines \o entries ELSE lines

(***************************************************************************)
(* FileManager                                                             *)
(***************************************************************************)
\* FileInfo(n, p, ext, s) and the default FileInfo()
FileInfo(n, p, ext, s) ==
    [name |-> n, path |-> p, extension |-> ext, size |-> s, hash |-> <<>>]
FileInfoDefault == FileInfo(<<>>, <<>>, <<>>, 0)

\* the failure record carrying the file's name and path
getFileInfoNamed(fsv, filePath, metaFails) ==
    LET filename == Last(filePath)
        extension == extractExtension(filename)
    IN  IF metaFails
        THEN [info |-> FileInfo(filename, filePath, extension, 0),
              logs |-> << [msg |-> "ERROR reading file info: ", what |-> "EACCES"] >>]
        ELSE [info |-> FileInfo(filename, filePath, extension, fsv[filePath].size),
              logs |-> << >>]

\* getFileInfo: metaFails is the environment's choice that fs::file_size throws
getFileInfo(fsv, filePath, metaFails) ==
    LET filename == Last(filePath)
        extension == extractExtension(filename)
    IN  IF metaFails
        THEN [info |-> FileInfoDefault,
              logs |-> << [msg |-> "ERROR reading file info: ", what |-> "EACCES"] >>]
        ELSE [info |-> FileInfo(filename, filePath, extension, fsv[filePath].size),
              logs |-> << >>]

\* directoryExists: fs::exists && fs::is_directory, false on an error
directoryExists(fsv, dir, statFails) ==
    IF statFails THEN FALSE ELSE IsDir(fsv, dir)

\* the entries fs::directory_iterator(targetDirectory) yields
Children(fsv, dir) ==
    { p \in DOMAIN fsv :
        Len(p) = Len(dir) + 1 /\ Front(p) = dir /\ fsv[p].kind # "absent" }

(***************************************************************************)
(* FileSorter                                                              *)
(***************************************************************************)
\* What the environment makes fail while one record is processed: the
\* fs::exists of the category folder, fs::create_directories, the fs::exists
\* of the destination, or fs::rename. Each throws fs::filesystem_error.
Faults == { "none", "existsDir", "mkdir", "existsDest", "rename" }

\* createDirectoryIfNotExists: the bool returned, the filesystem and the lines logged
createDirectoryIfNotExists(fsv, path, fault) ==
    IF fault = "existsDir"
    THEN [ok |-> FALSE, fs |-> fsv,
          logs |-> << [msg |-> "ERROR creating directory ", dir |-> path,
                       what |-> "EACCES"] >>]
    ELSE IF exists(fsv, path)
    THEN [ok |-> TRUE, fs |-> fsv, logs |-> << >>]
    ELSE IF fault = "mkdir" \/ ~CanCreateDirectories(fsv, path)
    THEN [ok |-> FALSE, fs |-> fsv,
          logs |-> << [msg |-> "ERROR creating directory ", dir |-> path,
                       what |-> IF fault = "mkdir" THEN "EACCES" ELSE "ENOTDIR"] >>]
    ELSE [ok |-> TRUE, fs |-> create_directories(fsv, path), logs |-> << >>]

\* the catch block of the loop: the line logged for a filesystem_error
CatchLogNoName(file, what) ==
    << [msg |-> "ERROR moving ", what |-> what] >>

CatchLog(file, what) ==
    << [msg |-> "ERROR moving ", name |-> file.name, what |-> what] >>

\* the conflict test before the move
DestinationTakenNever(fsv, destPath) == FALSE

DestinationTaken(fsv, destPath) == exists(fsv, destPath)

\* where the loop goes after a record whose filesystem call threw
AfterErrorFailFast == "propagated"

AfterError == "organizing"

\* movedCount after a record that was skipped or failed
CountAfterSkipAlways(count) == count + 1

CountAfterSkip(count) == count

\* movedCount after a record that was moved
CountAfterMoveForgotten(count) == count

CountAfterMove(count) == count + 1

\* the destination path built for a record: categoryPath + "/" + file.name
DestPath(categoryPath, name) == categoryPath \o <<name>>

\* the move itself, once fs::rename succeeds
MoveFileByCopy(fsv, from, to) == [fsv EXCEPT ![to] = fsv[from]]

MoveFile(fsv, from, to) == rename(fsv, from, to)

\* One iteration of the loop of organizeByExtension (the try block and its
\* catch). Yields the filesystem, the lines logged, the new movedCount, the
\* record's outcome, where control goes, and the map after the lookup.
ProcessRecord(fsv, map, file, baseDir, count, fault) ==
    LET looked == getCategoryForExtension(map, file.extension)
        category == looked.category
        categoryPath == baseDir \o <<category>>
        made == createDirectoryIfNotExists(fsv, categoryPath, fault)
        destPath == DestPath(categoryPath, file.name)
        err == IF fault = "rename" THEN "EACCES"
               ELSE renameError(made.fs, file.path, destPath)
    IN  IF ~made.ok
        THEN [fs |-> made.fs, map |-> looked.map,
              logs |-> made.logs \o
                       << [msg |-> "ERROR: Failed to create directory: ",
                           dir |-> categoryPath] >>,
              count |-> CountAfterSkip(count), outcome |-> "dirFailed",
              pc |-> "organizing"]
        ELSE IF fault = "existsDest"
        THEN [fs |-> made.fs, map |-> looked.map,
              logs |-> CatchLog(file, "EACCES"),
              count |-> CountAfterSkip(count), outcome |-> "moveFailed",
              pc |-> AfterError]
        ELSE IF DestinationTaken(made.fs, destPath)
        THEN [fs |-> made.fs, map |-> looked.map,
              logs |-> << [msg |-> "SKIPPED: File already exists: ",
                           dest |-> destPath] >>,
              count |-> CountAfterSkip(count), outcome |-> "skipped",
              pc |-> "organizing"]
        ELSE IF err # "ok"
        THEN [fs |-> made.fs, map |-> looked.map,
              logs |-> CatchLog(file, err),
              count |-> CountAfterSkip(count), outcome |-> "moveFailed",
              pc |-> AfterError]
        ELSE [fs |-> MoveFile(made.fs, file.path, destPath), map |-> looked.map,
              logs |-> << [msg |-> "Moved: ", name |-> file.name,
                           category |-> category] >>,
              count |-> CountAfterMove(count), outcome |-> "moved",
              pc |-> "organizing"]

(***************************************************************************)
(* Initial states of the engine: a directory of at most MaxFiles regular   *)
(* files, some of their category folders, and files already in those       *)
(* folders under the names of files of the directory.                      *)
(***************************************************************************)
\* the threads that may call Logger::log at the same time
Threads == { "t1", "t2" }

\* no thread is inside Logger::log
ThreadsIdle ==
    /\ logMutex = "free"
    /\ threadPc = [t \in Threads |-> "idle"]
    /\ threadCalls = [t \in Threads |-> 0]

DestPaths == { baseDirectory \o <<CategoryOf(n), n>> : n \in NamePool }

InitialFs(top, dirs, pre) ==
    [p \in Paths |->
        IF p = baseDirectory \/ p = OtherDirectory THEN DirNode
        ELSE IF Len(p) = 2 /\ p[2] \in top
             THEN FileNode(SizeOf(p[2]), <<"src", p[2]>>)
        ELSE IF Len(p) = 2 /\ p[2] \in dirs THEN DirNode
        ELSE IF p \in pre THEN FileNode(10, <<"pre", p[3]>>)
        ELSE Absent]

\* the managed directory is missing, or is a regular file
BrokenFs(kind) ==
    [p \in Paths |-> IF p = baseDirectory /\ kind = "file"
                     THEN FileNode(0, <<"src", Base>>)
                     ELSE IF p = OtherDirectory THEN DirNode
                     ELSE Absent]

InitFs ==
    \/ \E top \in SUBSET NamePool :
         /\ Cardinality(top) <= MaxFiles
         /\ \E dirs \in SUBSET ({ CategoryOf(n) : n \in top } \ top) :
            \E pre \in SUBSET { d \in DestPaths : d[2] \in dirs /\ d[3] \in top } :
                fs = InitialFs(top, dirs, pre)
    \/ \E kind \in {"missing", "file"} : fs = BrokenFs(kind)

InitEngine ==
    /\ InitFs
    /\ files = << >>
    /\ lastOp = "none"
    /\ scanRet = 0
    /\ logOpen \in BOOLEAN
    /\ log = << >>
    /\ pc = "idle"
    /\ pending = {}
    /\ idx = 0
    /\ movedCount = 0
    /\ result = 0
    /\ fs0 = fs
    /\ outcomes = << >>
    /\ scanOutcome = "none"
    /\ scanFailed = FALSE
    /\ ThreadsIdle
    /\ currentDirectory = baseDirectory
    /\ targetDirectory = baseDirectory

Init ==
    /\ InitEngine
    /\ menu = "api"
    /\ extensionCategories = initializeCategories
    /\ fn = "none"
    /\ arg = << >>
    /\ ret = << >>

(***************************************************************************)
(* FileManager::scanDirectory                                              *)
(***************************************************************************)
\* handleOrganizeFiles returning to the menu right after organizeByExtension
AfterOrganizeNoRescan == "prompt"

\* handleOrganizeFiles after organizeByExtension: fileManager->scanDirectory()
AfterOrganize == "rescan"

\* where the menu is after a step of the engine that leaves it at pcNext:
\* a handler ends (pauseScreen, back to the prompt) when its last call returns
MenuAfter(m, pcNext) ==
    IF m = "api" \/ pcNext # "idle" THEN m
    ELSE IF m = "organize" THEN AfterOrganize
    ELSE "prompt"

\* the locals, the observers and the returned value of an earlier
\* organizeByExtension no longer exist once another operation runs
OrganizeLocalsGone ==
    /\ idx' = 0
    /\ movedCount' = 0
    /\ result' = 0
    /\ fs0' = fs
    /\ outcomes' = << >>

\* the earlier records kept
filesClearKept(fls) == fls

\* files.clear()
filesClear(fls) == << >>

\* files.clear(); the directory cannot be scanned (it is missing, not a
\* directory, or directoryExists caught an error): 0 is returned
ScanMissing ==
    /\ pc = "idle" /\ menu \in { "api", "scan", "rescan" }
    /\ \E statFails \in BOOLEAN :
         /\ ~directoryExists(fs, targetDirectory, statFails)
         /\ files' = filesClear(files)
         /\ scanRet' = 0
         /\ log' = LoggerLog(logOpen, << >>,
                     (IF statFails
                      THEN << [msg |-> "ERROR checking directory: ", what |-> "EACCES"] >>
                      ELSE << >>)
                     \o << [msg |-> "ERROR: Cannot scan non-existent directory"] >>)
    /\ lastOp' = "scan"
    /\ scanOutcome' = "missing"
    /\ scanFailed' = TRUE
    /\ menu' = MenuAfter(menu, "idle")
    /\ OrganizeLocalsGone
    /\ UNCHANGED << fs, extensionCategories, logOpen, pc, pending, fn, arg, ret,
                    threadVars, menuDirs >>

\* files.clear(); the directory exists and the loop over its entries starts
ScanBegin ==
    /\ pc = "idle" /\ menu \in { "api", "scan", "rescan" }
    /\ directoryExists(fs, targetDirectory, FALSE)
    /\ files' = filesClear(files)
    /\ pending' = Children(fs, targetDirectory)
    /\ pc' = "scanning"
    /\ log' = << >>
    /\ scanRet' = 0
    /\ lastOp' = "scan"
    /\ scanOutcome' = "none"
    /\ OrganizeLocalsGone
    /\ UNCHANGED << fs, extensionCategories, logOpen, fn, arg, ret, menu, scanFailed,
                    threadVars, menuDirs >>

\* one iteration: the iterator yields an entry, in an order of its own;
\* a regular file is recorded, anything else is passed over
ScanEntry ==
    /\ pc = "scanning"
    /\ \E entry \in pending :
       \E metaFails \in BOOLEAN :
         LET got == getFileInfo(fs, entry, metaFails)
         IN  /\ pending' = pending \ {entry}
             /\ IF IsFile(fs, entry)
                THEN /\ files' = Append(files, got.info)
                     /\ log' = LoggerLog(logOpen, log, got.logs \o
                                 << [msg |-> "Found file: ", name |-> got.info.name,
                                     size |-> got.info.size] >>)
                ELSE /\ ~metaFails
                     /\ UNCHANGED << files, log >>
    /\ UNCHANGED << fs, lastOp, scanRet, extensionCategories, logOpen, pc, idx,
                    movedCount, result, fs0, outcomes, fn, arg, ret, menu,
                    scanOutcome, scanFailed, threadVars, menuDirs >>

\* where control goes when the loop of scanDirectory throws
AfterScanErrorRethrown == "propagated"

AfterScanError == "idle"

\* the iterator (its construction, an increment, or is_regular_file) throws:
\* the catch block returns 0
ScanThrow ==
    /\ pc = "scanning"
    /\ log' = LoggerLog(logOpen, log,
                << [msg |-> "ERROR scanning directory: ", what |-> "EIO"] >>)
    /\ scanRet' = 0
    /\ pending' = {}
    /\ pc' = AfterScanError
    /\ scanOutcome' = "threw"
    /\ scanFailed' = TRUE
    /\ menu' = MenuAfter(menu, AfterScanError)
    /\ UNCHANGED << fs, files, lastOp, extensionCategories, logOpen, idx,
                    movedCount, result, fs0, outcomes, fn, arg, ret, threadVars, menuDirs >>

\* the loop ended: the number of records is returned
ScanReturn ==
    /\ pc = "scanning" /\ pending = {}
    /\ log' = LoggerLog(logOpen, log,
                << [msg |-> "Scan complete: ", count |-> Len(files)] >>)
    /\ scanRet' = Len(files)
    /\ pc' = "idle"
    /\ scanOutcome' = "ok"
    /\ menu' = MenuAfter(menu, "idle")
    /\ UNCHANGED << fs, files, lastOp, pending, extensionCategories, logOpen, idx,
                    movedCount, result, fs0, outcomes, fn, arg, ret, scanFailed,
                    threadVars, menuDirs >>

(***************************************************************************)
(* FileSorter::organizeByExtension(files, baseDirectory)                   *)
(***************************************************************************)
OrganizeBegin ==
    /\ pc = "idle" /\ menu \in { "api", "organize" }
    /\ pc' = "organizing"
    /\ idx' = 1
    /\ movedCount' = 0
    /\ log' = LoggerLog(logOpen, << >>,
                << [msg |-> "Starting file organization in: ", dir |-> currentDirectory] >>)
    /\ fs0' = fs
    /\ outcomes' = << >>
    /\ lastOp' = "organize"
    /\ scanRet' = 0
    /\ result' = 0
    /\ scanOutcome' = "none"
    /\ arg' = << >>
    /\ UNCHANGED << fs, files, pending, extensionCategories, logOpen, fn, ret,
                    menu, scanFailed, threadVars, menuDirs >>

OrganizeRecord ==
    /\ pc = "organizing" /\ idx <= Len(files)
    /\ \E fault \in Faults :
         LET step == ProcessRecord(fs, extensionCategories, files[idx],
                                   currentDirectory, movedCount, fault)
         IN  /\ fs' = step.fs
             /\ extensionCategories' = step.map
             /\ log' = LoggerLog(logOpen, log, step.logs)
             /\ movedCount' = step.count
             /\ outcomes' = Append(outcomes, step.outcome)
             /\ pc' = step.pc
    /\ idx' = idx + 1
    /\ UNCHANGED << files, lastOp, scanRet, logOpen, pending, result, fs0,
                    fn, arg, ret, menu, scanOutcome, scanFailed, threadVars, menuDirs >>

OrganizeReturn ==
    /\ pc = "organizing" /\ idx > Len(files)
    /\ log' = LoggerLog(logOpen, log,
                << [msg |-> "Organization complete: ", count |-> movedCount] >>)
    /\ result' = movedCount
    /\ pc' = "idle"
    /\ menu' = MenuAfter(menu, "idle")
    /\ UNCHANGED << fs, files, lastOp, scanRet, extensionCategories, logOpen,
                    pending, idx, movedCount, fs0, outcomes, fn, arg, ret,
                    scanOutcome, scanFailed, threadVars, menuDirs >>

\* the environment: the managed directory, missing or not a directory so
\* far, is created with some regular files in it
EnvCreateDirectory ==
    /\ pc = "idle" /\ menu \in { "api", "prompt" }
    /\ ~IsDir(fs, baseDirectory)
    /\ \E top \in SUBSET NamePool :
         /\ Cardinality(top) <= MaxFiles
         /\ fs' = InitialFs(top, {}, {})
    /\ lastOp' = "env"
    /\ OrganizeLocalsGone
    /\ UNCHANGED << files, scanRet, extensionCategories, logOpen, log, pc, pending,
                    fn, arg, ret, menu, scanOutcome, scanFailed, threadVars, menuDirs >>

Next ==
    \/ EnvCreateDirectory
    \/ ScanMissing
    \/ ScanBegin
    \/ ScanEntry
    \/ ScanThrow
    \/ ScanReturn
    \/ OrganizeBegin
    \/ OrganizeRecord
    \/ OrganizeReturn

Spec == Init /\ [][Next]_vars

(***************************************************************************)
(* The pure functions on their own: an input string is drawn, and          *)
(* extractExtension, getCategoryForExtension, or the two in the order scan *)
(* and organize apply them, is called on it once.                          *)
(***************************************************************************)
Alphabet == { ".", "h", "H", "g", "z", "Z" }

StringsUpTo(n) == UNION { [1..k -> Alphabet] : k \in 0..n }

file_txt == <<"f","i","l","e",".","t","x","t">>
archive_tar_gz == <<"a","r","c","h","i","v","e",".","t","a","r",".","g","z">>
README == <<"R","E","A","D","M","E">>
gitignore == <<".","g","i","t","i","g","n","o","r","e">>
A_TXT == <<"A",".","T","X","T">>
a_Txt == <<"a",".","T","x","t">>

ExampleNames == { file_txt, archive_tar_gz, README, gitignore, A_TXT, a_Txt, a_txt }

TableKeys == { CategoryAssignments[i][1] : i \in 1..Len(CategoryAssignments) }

Inputs == StringsUpTo(MaxNameLen) \cup ExampleNames \cup TableKeys

InitFn ==
    /\ fs = BrokenFs("missing")
    /\ files = << >>
    /\ lastOp = "none"
    /\ scanRet = 0
    /\ logOpen = TRUE
    /\ log = << >>
    /\ pc = "idle"
    /\ pending = {}
    /\ idx = 0
    /\ movedCount = 0
    /\ result = 0
    /\ fs0 = fs
    /\ outcomes = << >>
    /\ menu = "api"
    /\ scanOutcome = "none"
    /\ scanFailed = FALSE
    /\ ThreadsIdle
    /\ currentDirectory = baseDirectory
    /\ targetDirectory = baseDirectory
    /\ extensionCategories = initializeCategories
    /\ fn = "none"
    /\ arg \in Inputs
    /\ ret = << >>

\* extractExtension(arg)
CallExtractExtension ==
    /\ fn = "none"
    /\ fn' = "extractExtension"
    /\ ret' = extractExtension(arg)
    /\ UNCHANGED << engineVars, extensionCategories, arg >>

\* getCategoryForExtension(arg)
CallGetCategoryForExtension ==
    /\ fn = "none"
    /\ fn' = "getCategoryForExtension"
    /\ LET looked == getCategoryForExtension(extensionCategories, arg)
       IN  /\ ret' = looked.category
           /\ extensionCategories' = looked.map
    /\ UNCHANGED << engineVars, arg >>

\* a file named arg is scanned (getFileInfo takes its extension) and the
\* record is organized (organizeByExtension looks the extension up)
ClassifyScanned ==
    /\ fn = "none"
    /\ fn' = "classify"
    /\ LET looked == getCategoryForExtension(extensionCategories, extractExtension(arg))
       IN  /\ ret' = looked.category
           /\ extensionCategories' = looked.map
    /\ UNCHANGED << engineVars, arg >>

NextFn ==
    \/ CallExtractExtension
    \/ CallGetCategoryForExtension
    \/ ClassifyScanned

SpecFn == InitFn /\ [][NextFn]_vars

(***************************************************************************)
(* FileSearcher                                                            *)
(***************************************************************************)
Digits == <<"0","1","2","3","4","5","6","7","8","9">>

\* std::to_string of an unsigned integer: its decimal digits
RECURSIVE to_string(_)
to_string(n) ==
    IF n < 10 THEN << Digits[n + 1] >>
    ELSE to_string(n \div 10) \o << Digits[(n % 10) + 1] >>

\* the characters of the model in the order of their codes, for operator<
\* of std::string (the key order of std::map)
CharOrder == << "." >> \o Digits \o Upper \o << "_" >> \o Lower

CharCode(c) == CHOOSE i \in 1..Len(CharOrder) : CharOrder[i] = c

\* std::string operator<: lexicographic
StringLess(a, b) ==
    \E k \in 1..(Len(b)) :
        /\ \A j \in 1..(k - 1) : j <= Len(a) /\ a[j] = b[j]
        /\ \/ k = Len(a) + 1
           \/ k <= Len(a) /\ CharCode(a[k]) < CharCode(b[k])

\* the keys of a std::map in iteration order
RECURSIVE KeysInOrder(_)
KeysInOrder(keys) ==
    IF keys = {} THEN << >>
    ELSE LET least == CHOOSE k \in keys : \A o \in keys \ {k} : StringLess(k, o)
         IN  << least >> \o KeysInOrder(keys \ {least})

\* the string left as it is
toLowercaseUnchanged(str) == str

\* toLowercase: std::tolower applied to each unsigned char
toLowercase(str) == [i \in 1..Len(str) |-> tolower(str[i])]

\* std::string::find(sub): 0-based position of the first occurrence, or npos
find(s, sub) ==
    LET hits == { k \in 0..(Len(s) - Len(sub)) : SubSeq(s, k + 1, k + Len(sub)) = sub }
    IN  IF hits = {} THEN npos
        ELSE CHOOSE k \in hits : \A j \in hits : k <= j

\* the fingerprint without the "_" between size and name
generateSimpleHashNoSeparator(file) == to_string(file.size) \o file.name

generateSimpleHash(file) == to_string(file.size) \o << "_" >> \o file.name

\* FileInfo::operator==
FileInfoEquals(a, b) == a.size = b.size /\ a.name = b.name

\* the loop of searchByName over the first n records
RECURSIVE SearchLoop(_, _, _)
SearchLoop(fls, lowerSearchTerm, n) ==
    IF n = 0 THEN [results |-> << >>, logs |-> << >>]
    ELSE LET prev == SearchLoop(fls, lowerSearchTerm, n - 1)
             file == fls[n]
             lowerFileName == toLowercase(file.name)
         IN  IF find(lowerFileName, lowerSearchTerm) # npos
             THEN [results |-> Append(prev.results, file),
                   logs |-> Append(prev.logs,
                                   [msg |-> "Match found: ", name |-> file.name])]
             ELSE prev

\* searchByName: the vector returned and the lines logged
searchByName(fls, searchTerm) ==
    LET lowerSearchTerm == toLowercase(searchTerm)
        done == SearchLoop(fls, lowerSearchTerm, Len(fls))
    IN  [results |-> done.results,
         logs |-> << [msg |-> "Searching for files containing: ", term |-> searchTerm] >>
                  \o done.logs
                  \o << [msg |-> "Search complete: ", count |-> Len(done.results)] >>]

\* step 1 of findDuplicates over the first n records: hashGroups[hash].push_back(file)
RECURSIVE GroupLoop(_, _)
GroupLoop(fls, n) ==
    IF n = 0 THEN [h \in {} |-> << >>]
    ELSE LET prev == GroupLoop(fls, n - 1)
             hash == generateSimpleHash(fls[n])
             group == IF hash \in DOMAIN prev THEN prev[hash] ELSE << >>
         IN  MapAssign(prev, hash, Append(group, fls[n]))

\* the filter of step 2 keeping every group
KeepGroupAny(group) == Len(group) >= 1

\* the filter of step 2: group.size() >= 2
KeepGroup(group) == Len(group) >= 2

\* findDuplicates: the map returned and the lines logged
findDuplicates(fls) ==
    LET hashGroups == GroupLoop(fls, Len(fls))
        kept == { h \in DOMAIN hashGroups : KeepGroup(hashGroups[h]) }
        order == KeysInOrder(kept)
    IN  [duplicates |-> [h \in kept |-> hashGroups[h]],
         logs |-> << [msg |-> "Starting duplicate detection on ", count |-> Len(fls)] >>
                  \o [i \in 1..Len(order) |->
                        [msg |-> "Duplicate group found: ",
                         count |-> Len(hashGroups[order[i]])]]
                  \o << [msg |-> "Duplicate detection complete: ",
                         count |-> Cardinality(kept)] >>]

(***************************************************************************)
(* FileSearcher on its own: a vector of records is drawn, and              *)
(* generateSimpleHash, searchByName or findDuplicates is called on it once.*)
(***************************************************************************)
MaxRecords == 3      \* longest vector of records handed to FileSearcher

\* names with digits and underscores, in two letter cases; two sizes whose
\* digits are a prefix of one another; the same name under two directories
SearchNames == { <<"_","a">>, <<"A">>, <<"1","_","a">> }
SearchSizes == { 1, 11 }
SearchDirs == { <<"p">>, <<"q">> }

SearchPool ==
    { FileInfo(n, <<d, n>>, extractExtension(n), sz) :
        n \in SearchNames, d \in SearchDirs, sz \in SearchSizes }

SearchTerms == { << >>, <<"A">>, <<"_","A">>, <<"1">>, <<"a","a">> }

InitSearch ==
    /\ fs = BrokenFs("missing")
    /\ files \in UNION { [1..k -> SearchPool] : k \in 0..MaxRecords }
    /\ lastOp = "none"
    /\ scanRet = 0
    /\ logOpen = TRUE
    /\ log = << >>
    /\ pc = "idle"
    /\ pending = {}
    /\ idx = 0
    /\ movedCount = 0
    /\ result = 0
    /\ fs0 = fs
    /\ outcomes = << >>
    /\ menu = "api"
    /\ scanOutcome = "none"
    /\ scanFailed = FALSE
    /\ ThreadsIdle
    /\ currentDirectory = baseDirectory
    /\ targetDirectory = baseDirectory
    /\ extensionCategories = initializeCategories
    /\ fn = "none"
    /\ arg = << >>
    /\ ret = << >>

searchVars == << fs, files, lastOp, scanRet, logOpen, pc, pending, idx, movedCount,
                 result, fs0, outcomes, extensionCategories, menu, scanOutcome,
                 scanFailed, threadVars, menuDirs >>

\* generateSimpleHash of the first two records
CallGenerateSimpleHash ==
    /\ fn = "none" /\ Len(files) >= 2
    /\ fn' = "generateSimpleHash"
    /\ ret' = << generateSimpleHash(files[1]), generateSimpleHash(files[2]) >>
    /\ UNCHANGED << searchVars, log, arg >>

\* searchByName(files, term)
CallSearchByName ==
    /\ fn = "none"
    /\ \E term \in SearchTerms :
         LET done == searchByName(files, term)
         IN  /\ arg' = term
             /\ ret' = done.results
             /\ log' = LoggerLog(logOpen, << >>, done.logs)
    /\ fn' = "searchByName"
    /\ UNCHANGED searchVars

\* findDuplicates(files)
CallFindDuplicates ==
    /\ fn = "none"
    /\ LET done == findDuplicates(files)
       IN  /\ ret' = done.duplicates
           /\ log' = LoggerLog(logOpen, << >>, done.logs)
    /\ fn' = "findDuplicates"
    /\ UNCHANGED << searchVars, arg >>

NextSearch ==
    \/ CallGenerateSimpleHash
    \/ CallSearchByName
    \/ CallFindDuplicates

SpecSearch == InitSearch /\ [][NextSearch]_vars

(***************************************************************************)
(* Menu: the loop of Menu::run. A handler that calls the engine once and   *)
(* returns is one action; handleScanDirectory and handleOrganizeFiles hand *)
(* over to the steps of scanDirectory and organizeByExtension above.       *)
(***************************************************************************)
\* the integers getIntInput hands to processChoice (8: none of the cases)
Choices == 0..8

\* the switch of processChoice
processChoice(choice) ==
    CASE choice = 1 -> "handleScanDirectory"
      [] choice = 2 -> "handleOrganizeFiles"
      [] choice = 3 -> "handleSearchFiles"
      [] choice = 4 -> "handleFindDuplicates"
      [] choice = 5 -> "handleDisplayFiles"
      [] choice = 6 -> "handleChangeDirectory"
      [] choice = 7 -> "displayCategories"
      [] choice = 0 -> "exit"
      [] OTHER -> "invalid"

\* the loop is at the prompt and the choice entered selects the handler
Chosen(handler) ==
    /\ menu = "prompt" /\ pc = "idle"
    /\ \E choice \in Choices : processChoice(choice) = handler

\* what the user may type at "Proceed with organization? (yes/no): "
ConfirmInputs == { <<"y","e","s">>, <<"Y">>, <<"Y","e","S">>, <<"n","o">> }

\* every answer taken for a yes
ConfirmedAlways(confirm) == TRUE

\* confirm == "yes" || confirm == "y", after the transform to lower case
Confirmed(confirm) ==
    LET lowered == transformToLower(confirm)
    IN  lowered = <<"y","e","s">> \/ lowered = <<"y">>

\* what the user may type at "Enter filename to search: "
MenuTerms == { << >>, <<"A">>, <<"t","x">> }

\* what the user may type at "Enter new directory path: ": nothing, the path
\* of the managed directory, or a path where nothing is
NewDirs == { << >>, baseDirectory, OtherDirectory, << <<"x">> >> }

\* the change made whatever directoryExists said
ChangeAcceptedAlways(found) == TRUE

\* !testManager->directoryExists() returns before any member is assigned
ChangeAccepted(found) == found

\* currentDirectory left as it was
currentDirectoryKept(old, newDir) == old

\* currentDirectory = newDir
currentDirectoryAssigned(old, newDir) == newDir

\* the exception ending the loop of run
AfterExceptionTerminates == "exited"

\* the catch block of the loop of run: the error is logged, the loop goes on
AfterException == "prompt"

\* no term is turned away
TermRejectedNever(searchTerm) == FALSE

\* searchTerm.empty()
TermRejected(searchTerm) == searchTerm = << >>

\* the part of the state a handler that only reads the collection leaves alone
handlerFrame == << fs, files, lastOp, scanRet, extensionCategories, logOpen, pc, pending,
                   idx, movedCount, result, fs0, outcomes, scanOutcome, scanFailed,
                   threadVars, menuDirs >>

\* the program as main starts it: the log file is open, the menu is at its
\* prompt, and the directory holds regular files and no category folder yet,
\* or there is nothing at its path
InitMenu ==
    /\ InitEngine
    /\ \/ \E top \in SUBSET NamePool :
            Cardinality(top) <= MaxFiles /\ fs = InitialFs(top, {}, {})
       \/ fs = BrokenFs("missing")
    /\ logOpen
    /\ menu = "prompt"
    /\ extensionCategories = initializeCategories
    /\ fn = "none"
    /\ arg = << >>
    /\ ret = << >>

\* case 1: handleScanDirectory calls fileManager->scanDirectory()
HandleScanDirectory ==
    /\ Chosen("handleScanDirectory")
    /\ menu' = "scan"
    /\ fn' = "none" /\ arg' = << >> /\ ret' = << >>
    /\ log' = << >>
    /\ UNCHANGED handlerFrame

\* case 2: handleOrganizeFiles up to the call of organizeByExtension
HandleOrganizeFiles ==
    /\ Chosen("handleOrganizeFiles")
    /\ ret' = << >>
    /\ log' = << >>
    /\ IF files = << >>
       THEN menu' = "prompt" /\ fn' = "handleOrganizeFiles" /\ arg' = << >>
       ELSE \E confirm \in ConfirmInputs :
              IF Confirmed(confirm)
              THEN menu' = "organize" /\ fn' = "none" /\ arg' = confirm
              ELSE menu' = "prompt" /\ fn' = "handleOrganizeFiles" /\ arg' = confirm
    /\ UNCHANGED handlerFrame

\* case 3: handleSearchFiles
HandleSearchFiles ==
    /\ Chosen("handleSearchFiles")
    /\ IF files = << >>
       THEN fn' = "handleSearchFiles" /\ arg' = << >> /\ ret' = << >> /\ log' = << >>
       ELSE \E searchTerm \in MenuTerms :
              /\ arg' = searchTerm
              /\ IF TermRejected(searchTerm)
                 THEN fn' = "handleSearchFiles" /\ ret' = << >> /\ log' = << >>
                 ELSE LET done == searchByName(files, searchTerm)
                      IN  /\ fn' = "searchByName"
                          /\ ret' = done.results
                          /\ log' = LoggerLog(logOpen, << >>, done.logs)
    /\ UNCHANGED << handlerFrame, menu >>

\* case 4: handleFindDuplicates; displayDuplicates prints the groups in the
\* order of their keys
HandleFindDuplicates ==
    /\ Chosen("handleFindDuplicates")
    /\ arg' = << >>
    /\ IF files = << >>
       THEN fn' = "handleFindDuplicates" /\ ret' = << >> /\ log' = << >>
       ELSE LET done == findDuplicates(files)
                order == KeysInOrder(DOMAIN done.duplicates)
            IN  /\ fn' = "findDuplicates"
                /\ ret' = [i \in 1..Len(order) |-> done.duplicates[order[i]]]
                /\ log' = LoggerLog(logOpen, << >>, done.logs)
    /\ UNCHANGED << handlerFrame, menu >>

\* case 5: handleDisplayFiles prints a row for every record
HandleDisplayFiles ==
    /\ Chosen("handleDisplayFiles")
    /\ arg' = << >>
    /\ log' = << >>
    /\ IF files = << >>
       THEN fn' = "handleDisplayFiles" /\ ret' = << >>
       ELSE /\ fn' = "displayFiles"
            /\ ret' = [i \in 1..Len(files) |->
                         << files[i].name, files[i].size, files[i].extension >>]
    /\ UNCHANGED << handlerFrame, menu >>

\* case 6: handleChangeDirectory; a FileManager made for an existing
\* directory replaces the current one, and its collection is empty
HandleChangeDirectory ==
    /\ Chosen("handleChangeDirectory")
    /\ fn' = "handleChangeDirectory" /\ ret' = << >>
    /\ \E newDir \in NewDirs :
         LET found == directoryExists(fs, newDir, FALSE)
         IN  /\ arg' = newDir
             /\ IF newDir = << >>
                THEN log' = << >>
                ELSE log' = LoggerLog(logOpen, << >>,
                            << [msg |-> "FileManager initialized for directory: ",
                                dir |-> newDir] >>
                            \o (IF found THEN << >>
                                ELSE << [msg |-> "WARNING: Directory does not exist: ",
                                         dir |-> newDir] >>))
             /\ IF newDir # << >> /\ ChangeAccepted(found)
                THEN /\ currentDirectory' = currentDirectoryAssigned(currentDirectory, newDir)
                     /\ targetDirectory' = newDir
                     /\ files' = << >>
                     /\ scanRet' = 0
                     /\ lastOp' = "none"
                     /\ scanOutcome' = "none"
                ELSE UNCHANGED << files, scanRet, lastOp, scanOutcome, menuDirs >>
    /\ UNCHANGED << fs, extensionCategories, logOpen, pc, pending, idx, movedCount,
                    result, fs0, outcomes, scanFailed, threadVars, menu >>

\* case 7 and default: the categories are printed, or the choice is refused
HandleOther ==
    /\ \/ Chosen("displayCategories")
       \/ Chosen("invalid")
    /\ fn' = "none" /\ arg' = << >> /\ ret' = << >>
    /\ log' = << >>
    /\ UNCHANGED << handlerFrame, menu >>

\* a handler throws a std::exception before it has changed anything (an
\* allocation fails): the catch block of run logs it and the loop goes on
HandlerThrows ==
    /\ \E handler \in { "handleScanDirectory", "handleOrganizeFiles", "handleSearchFiles",
                         "handleFindDuplicates", "handleDisplayFiles",
                         "handleChangeDirectory", "displayCategories" } :
         Chosen(handler)
    /\ menu' = AfterException
    /\ fn' = "exception" /\ arg' = << >> /\ ret' = << >>
    /\ log' = LoggerLog(logOpen, << >>, << [msg |-> "ERROR: ", what |-> "bad_alloc"] >>)
    /\ UNCHANGED handlerFrame

\* case 0: Menu::exit sets isRunning to false and the loop of run ends
MenuExit ==
    /\ Chosen("exit")
    /\ menu' = "exited"
    /\ fn' = "exit" /\ arg' = << >> /\ ret' = << >>
    /\ log' = LoggerLog(logOpen, << >>,
                << [msg |-> "User requested exit"],
                   [msg |-> "Application terminated normally"] >>)
    /\ UNCHANGED handlerFrame

NextMenu ==
    \/ HandleScanDirectory
    \/ HandleOrganizeFiles
    \/ HandleSearchFiles
    \/ HandleFindDuplicates
    \/ HandleDisplayFiles
    \/ HandleChangeDirectory
    \/ HandleOther
    \/ HandlerThrows
    \/ MenuExit
    \/ EnvCreateDirectory
    \/ ScanMissing
    \/ ScanBegin
    \/ ScanEntry
    \/ ScanThrow
    \/ ScanReturn
    \/ OrganizeBegin
    \/ OrganizeRecord
    \/ OrganizeReturn

SpecMenu == InitMenu /\ [][NextMenu]_vars

MaxInput == 2        \* records in a vector handed to organizeByExtension by a caller

\* the records a caller can hold of the regular files of the directory: what
\* getFileInfo gives for each, the zero-valued record included
RecordPool(fsv) ==
    { getFileInfo(fsv, p, metaFails).info :
        p \in { q \in DOMAIN fsv : Len(q) = 2 /\ Front(q) = baseDirectory /\ IsFile(fsv, q) },
        metaFails \in BOOLEAN }

\* organizeByExtension called on any vector of such records, one record
\* possibly several times in it
InitOrganize ==
    /\ InitFs
    /\ files \in UNION { [1..k -> RecordPool(fs)] : k \in 0..MaxInput }
    /\ lastOp = "none"
    /\ scanRet = 0
    /\ logOpen \in BOOLEAN
    /\ log = << >>
    /\ pc = "idle"
    /\ pending = {}
    /\ idx = 0
    /\ movedCount = 0
    /\ result = 0
    /\ fs0 = fs
    /\ outcomes = << >>
    /\ scanOutcome = "none"
    /\ scanFailed = FALSE
    /\ ThreadsIdle
    /\ currentDirectory = baseDirectory
    /\ targetDirectory = baseDirectory
    /\ menu = "api"
    /\ extensionCategories = initializeCategories
    /\ fn = "none"
    /\ arg = << >>
    /\ ret = << >>

NextOrganize ==
    \/ OrganizeBegin
    \/ OrganizeRecord
    \/ OrganizeReturn

SpecOrganize == InitOrganize /\ [][NextOrganize]_vars

\* the menu started whether or not file_manager.log could be opened
InitMenuLog ==
    /\ InitEngine
    /\ \/ \E top \in SUBSET NamePool :
            Cardinality(top) <= MaxFiles /\ fs = InitialFs(top, {}, {})
       \/ fs = BrokenFs("missing")
    /\ menu = "prompt"
    /\ extensionCategories = initializeCategories
    /\ fn = "none"
    /\ arg = << >>
    /\ ret = << >>

SpecMenuLog == InitMenuLog /\ [][NextMenu]_vars

\* the steps the program takes by itself once a handler has called the
\* engine: a scan or an organize that has started goes on until it returns
EngineStep ==
    \/ ScanMissing
    \/ ScanBegin
    \/ ScanEntry
    \/ ScanThrow
    \/ ScanReturn
    \/ OrganizeBegin
    \/ OrganizeRecord
    \/ OrganizeReturn

\* the handlers wait for the user; the engine does not
SpecMenuFair == SpecMenu /\ WF_vars(EngineStep)

(***************************************************************************)
(* Logger::log called from several threads. A call takes the mutex, and,   *)
(* when the file is open, puts "[" timestamp "] ", the message and         *)
(* std::endl into the stream one after the other; the lock_guard releases  *)
(* the mutex when the call returns. Here `log` is the sequence of the      *)
(* pieces the stream received, each tagged with the call that wrote it.    *)
(***************************************************************************)
MaxLogCalls == 2     \* calls of Logger::log each thread makes

\* the mutex taken whether it is held or not
LockAvailableAlways(owner) == TRUE

\* std::lock_guard<std::mutex> lock(logMutex) goes on when no thread holds it
LockAvailable(owner) == owner = "free"

\* the piece a thread puts into the stream during its current call
Piece(t, part) == [thread |-> t, call |-> threadCalls[t] + 1, part |-> part]

loggerFrame == << fs, files, lastOp, scanRet, extensionCategories, logOpen, pc, pending,
                  idx, movedCount, result, fs0, outcomes, fn, arg, ret, menu,
                  scanOutcome, scanFailed, menuDirs >>

InitLog ==
    /\ fs = BrokenFs("missing")
    /\ files = << >>
    /\ lastOp = "none"
    /\ scanRet = 0
    /\ logOpen \in BOOLEAN
    /\ log = << >>
    /\ pc = "idle"
    /\ pending = {}
    /\ idx = 0
    /\ movedCount = 0
    /\ result = 0
    /\ fs0 = fs
    /\ outcomes = << >>
    /\ menu = "api"
    /\ scanOutcome = "none"
    /\ scanFailed = FALSE
    /\ ThreadsIdle
    /\ currentDirectory = baseDirectory
    /\ targetDirectory = baseDirectory
    /\ extensionCategories = initializeCategories
    /\ fn = "none"
    /\ arg = << >>
    /\ ret = << >>

\* a thread calls Logger::getInstance().log(message)
LogCall(t) ==
    /\ threadPc[t] = "idle" /\ threadCalls[t] < MaxLogCalls
    /\ threadPc' = [threadPc EXCEPT ![t] = "waiting"]
    /\ UNCHANGED << loggerFrame, log, logMutex, threadCalls >>

\* the lock_guard is constructed
LogAcquire(t) ==
    /\ threadPc[t] = "waiting"
    /\ LockAvailable(logMutex)
    /\ logMutex' = t
    /\ threadPc' = [threadPc EXCEPT ![t] = IF logOpen THEN "locked" ELSE "done"]
    /\ UNCHANGED << loggerFrame, log, threadCalls >>

\* logFile << "[" << getCurrentTimestamp() << "] "
LogStamp(t) ==
    /\ threadPc[t] = "locked"
    /\ log' = Append(log, Piece(t, "stamp"))
    /\ threadPc' = [threadPc EXCEPT ![t] = "stamped"]
    /\ UNCHANGED << loggerFrame, logMutex, threadCalls >>

\* << message
LogMessage(t) ==
    /\ threadPc[t] = "stamped"
    /\ log' = Append(log, Piece(t, "message"))
    /\ threadPc' = [threadPc EXCEPT ![t] = "written"]
    /\ UNCHANGED << loggerFrame, logMutex, threadCalls >>

\* << std::endl: the newline and the flush
LogEndl(t) ==
    /\ threadPc[t] = "written"
    /\ log' = Append(log, Piece(t, "endl"))
    /\ threadPc' = [threadPc EXCEPT ![t] = "done"]
    /\ UNCHANGED << loggerFrame, logMutex, threadCalls >>

\* the call returns: the lock_guard is destroyed and the mutex released
LogReturn(t) ==
    /\ threadPc[t] = "done"
    /\ logMutex' = "free"
    /\ threadPc' = [threadPc EXCEPT ![t] = "idle"]
    /\ threadCalls' = [threadCalls EXCEPT ![t] = threadCalls[t] + 1]
    /\ UNCHANGED << loggerFrame, log >>

NextLog ==
    \/ \E t \in Threads : LogCall(t)
    \/ \E t \in Threads : LogAcquire(t)
    \/ \E t \in Threads : LogStamp(t)
    \/ \E t \in Threads : LogMessage(t)
    \/ \E t \in Threads : LogEndl(t)
    \/ \E t \in Threads : LogReturn(t)

SpecLog == InitLog /\ [][NextLog]_vars

(***************************************************************************)
(* Properties.                                                             *)
(***************************************************************************)
\* organizeByExtension has returned and nothing ran since
Returned == pc = "idle" /\ lastOp = "organize"

\* the category folder and the destination path of the i-th record
RecCategory(i) ==
    getCategoryForExtension(initializeCategories, files[i].extension).category
RecDest(i) == baseDirectory \o << RecCategory(i), files[i].name >>

\* the i-th record's file left its path and is at its destination
Renamed(i) ==
    /\ IsFile(fs0, files[i].path)
    /\ ~exists(fs, files[i].path)
    /\ NodeAt(fs, RecDest(i)) = fs0[files[i].path]

Failed(i) == outcomes[i] \in { "dirFailed", "moveFailed" }

\* C1: organizeByExtension never overwrites. Whenever the loop processes a
\* record whose destination path already exists, that step leaves the node at
\* the destination and the node at the record's path as they were and does
\* not increment movedCount.
C1_NeverOverwrites ==
    [][ (pc = "organizing" /\ idx <= Len(files) /\ exists(fs, RecDest(idx)))
        => LET dest == RecDest(idx)
               src == files[idx].path
           IN  /\ NodeAt(fs', dest) = NodeAt(fs, dest)
               /\ NodeAt(fs', src) = NodeAt(fs, src)
               /\ movedCount' = movedCount ]_vars

\* a call returned after skipping a record whose file is still in the
\* directory while another file, there before, is still at its destination
C1_Witness ==
    /\ Returned
    /\ \E i \in 1..Len(outcomes) :
         /\ outcomes[i] = "skipped"
         /\ IsFile(fs, files[i].path)
         /\ fs[files[i].path].content = <<"src", files[i].name>>
         /\ IsFile(fs, RecDest(i))
         /\ fs[RecDest(i)].content = <<"pre", files[i].name>>

\* C2: organizeByExtension is idempotent on an organized tree. A call that
\* starts when the destination of every record already exists returns 0 and
\* leaves the filesystem as it found it.
C2_IdempotentOnOrganized ==
    (Returned /\ \A i \in 1..Len(files) : exists(fs0, RecDest(i)))
        => (result = 0 /\ fs = fs0)

\* a second call over the same records returned: a record's file had already
\* been moved to its destination by an earlier call
C2_Witness ==
    /\ Returned
    /\ Len(files) > 0
    /\ \A i \in 1..Len(files) : exists(fs0, RecDest(i))
    /\ \E i \in 1..Len(files) :
         /\ ~exists(fs0, files[i].path)
         /\ IsFile(fs0, RecDest(i))
         /\ fs0[RecDest(i)].content = <<"src", files[i].name>>
    /\ result = 0

\* C3: the value organizeByExtension returns is the number of records whose
\* file was renamed to its destination during the call, and lies between 0
\* and the number of records.
C3_ResultCountsRenames ==
    Returned =>
        /\ result = Cardinality({ i \in 1..Len(files) : Renamed(i) })
        /\ 0 <= result
        /\ result <= Len(files)

\* a call over two records returned 1: one was moved, the other was not
C3_Witness ==
    /\ Returned
    /\ Len(files) = 2
    /\ result = 1
    /\ \E i \in 1..2 : outcomes[i] # "moved"

\* C4: a failure on one record never ends the call. No error leaves
\* organizeByExtension, the loop has handled exactly the records before idx,
\* and on return every record has an outcome.
C4_FailureIsolation ==
    /\ pc # "propagated"
    /\ pc = "organizing" => Len(outcomes) = idx - 1
    /\ Returned => Len(outcomes) = Len(files)

\* a call returned in which a record failed and a later record was moved
C4_Witness ==
    /\ Returned
    /\ \E i, j \in 1..Len(outcomes) :
         i < j /\ Failed(i) /\ outcomes[j] = "moved" /\ Renamed(j)

\* C5 as stated: every per-record failure, of the directory creation or of
\* the move, leaves (while the log file is open) a log line that holds the
\* record's name and the error text.
C5_EveryFailureLogsNameAndError ==
    (logOpen /\ lastOp = "organize") =>
        \A i \in 1..Len(outcomes) :
            Failed(i) =>
                \E k \in 1..Len(log) :
                    /\ "name" \in DOMAIN log[k]
                    /\ "what" \in DOMAIN log[k]
                    /\ log[k].name = files[i].name

\* C5 amended: while the log file is open, a failed move leaves an
\* "ERROR moving" line with the record's name and the error text; a failed
\* directory creation leaves an "ERROR creating directory" line with the
\* category folder's path and the error text and an "ERROR: Failed to create
\* directory" line with that path.
C5_FailureLogged ==
    (logOpen /\ lastOp = "organize") =>
        \A i \in 1..Len(outcomes) :
            /\ outcomes[i] = "moveFailed" =>
                 \E k \in 1..Len(log) :
                    /\ log[k].msg = "ERROR moving "
                    /\ "name" \in DOMAIN log[k]
                    /\ "what" \in DOMAIN log[k]
                    /\ log[k].name = files[i].name
            /\ outcomes[i] = "dirFailed" =>
                 /\ \E k \in 1..Len(log) :
                      /\ log[k].msg = "ERROR creating directory "
                      /\ "what" \in DOMAIN log[k]
                      /\ log[k].dir = baseDirectory \o << RecCategory(i) >>
                 /\ \E k \in 1..Len(log) :
                      /\ log[k].msg = "ERROR: Failed to create directory: "
                      /\ log[k].dir = baseDirectory \o << RecCategory(i) >>

\* a call returned, with the log open, in which one record failed in the
\* move and another in the directory creation
C5_Witness ==
    /\ Returned
    /\ logOpen
    /\ \E i, j \in 1..Len(outcomes) :
         outcomes[i] = "moveFailed" /\ outcomes[j] = "dirFailed"

\* C6: from the step that moves a record on, its file is at
\* baseDirectory/<category>/<name>, unchanged, and no longer at the record's
\* path.
C6_MovedExactlyOnce ==
    lastOp = "organize" =>
        \A i \in 1..Len(outcomes) :
            outcomes[i] = "moved" =>
                /\ IsFile(fs, RecDest(i))
                /\ fs[RecDest(i)] = fs0[files[i].path]
                /\ ~exists(fs, files[i].path)

\* a call returned having moved a record
C6_Witness ==
    /\ Returned
    /\ \E i \in 1..Len(outcomes) :
         /\ outcomes[i] = "moved"
         /\ fs[RecDest(i)].content = <<"src", files[i].name>>

SevenCategories ==
    { Documents, Images, Videos, Audio, Archives, Code, Executables }

\* the mappings the header of FileSorter documents
DocumentedCategories ==
    { << <<".","t","x","t">>, Documents >>, << <<".","p","d","f">>, Documents >>,
      << <<".","d","o","c">>, Documents >>, << <<".","d","o","c","x">>, Documents >>,
      << <<".","x","l","s","x">>, Documents >>, << <<".","p","p","t">>, Documents >>,
      << <<".","j","p","g">>, Images >>, << <<".","j","p","e","g">>, Images >>,
      << <<".","p","n","g">>, Images >>, << <<".","g","i","f">>, Images >>,
      << <<".","b","m","p">>, Images >>, << <<".","s","v","g">>, Images >>,
      << <<".","m","p","4">>, Videos >>, << <<".","a","v","i">>, Videos >>,
      << <<".","m","k","v">>, Videos >>, << <<".","m","o","v">>, Videos >>,
      << <<".","w","m","v">>, Videos >>,
      << <<".","m","p","3">>, Audio >>, << <<".","w","a","v">>, Audio >>,
      << <<".","f","l","a","c">>, Audio >>, << <<".","a","a","c">>, Audio >>,
      << <<".","z","i","p">>, Archives >>, << <<".","r","a","r">>, Archives >>,
      << <<".","7","z">>, Archives >>, << <<".","t","a","r">>, Archives >>,
      << <<".","g","z">>, Archives >>,
      << <<".","c","p","p">>, Code >>, << <<".","h">>, Code >>,
      << <<".","p","y">>, Code >>, << <<".","j","a","v","a">>, Code >>,
      << <<".","j","s">>, Code >>, << <<".","h","t","m","l">>, Code >>,
      << <<".","c","s","s">>, Code >>,
      << <<".","e","x","e">>, Executables >> }

\* C7: getCategoryForExtension is total and matches the table. An extension
\* the table lists gets the category listed with it (each assignment of
\* initializeCategories, and each mapping the header documents), one of the
\* seven; any other string, the empty one included, gets "Others"; and the
\* lookup leaves the table as the constructor built it.
C7_CategoryLookup ==
    fn = "getCategoryForExtension" =>
        /\ \A i \in 1..Len(CategoryAssignments) :
              arg = CategoryAssignments[i][1] =>
                  ret = CategoryAssignments[i][2] /\ ret \in SevenCategories
        /\ \A d \in DocumentedCategories : arg = d[1] => ret = d[2]
        /\ arg \notin TableKeys => ret = Others
        /\ extensionCategories = initializeCategories
        /\ DOMAIN extensionCategories = TableKeys

\* the empty extension was looked up and got "Others"
C7_Witness ==
    fn = "getCategoryForExtension" /\ arg = << >> /\ ret = Others

\* the strings that differ from s only in the case of their letters
CaseOf(c) ==
    {c} \cup { Upper[i] : i \in { j \in 1..26 : Lower[j] = c } }
        \cup { Lower[i] : i \in { j \in 1..26 : Upper[j] = c } }

RECURSIVE CaseVariants(_)
CaseVariants(s) ==
    IF s = << >> THEN { << >> }
    ELSE { Append(v, c) : v \in CaseVariants(Front(s)), c \in CaseOf(Last(s)) }

\* C8: classification is case-insensitive end to end. The category a scanned
\* and organized file gets is the category every spelling of its name in
\* other letter case gets; "A.TXT", "a.Txt" and "a.txt" get Documents.
C8_CaseInsensitive ==
    fn = "classify" =>
        /\ \A v \in CaseVariants(arg) :
              getCategoryForExtension(initializeCategories,
                                      extractExtension(v)).category = ret
        /\ arg \in { A_TXT, a_Txt, a_txt, a_TXT } => ret = Documents

\* "A.TXT" was classified as Documents
C8_Witness ==
    fn = "classify" /\ arg = A_TXT /\ ret = Documents

\* d is the lowercase of c
IsLowerOf(d, c) ==
    IF \E i \in 1..26 : Upper[i] = c
    THEN \E i \in 1..26 : Upper[i] = c /\ d = Lower[i]
    ELSE d = c

\* C9: for a name whose last '.' is at a position > 0, extractExtension
\* returns the suffix from that '.', lowercased; for a name with no '.' it
\* returns the empty string.
C9_ExtractExtension ==
    fn = "extractExtension" =>
        /\ \A k \in 2..Len(arg) :
              (arg[k] = "." /\ \A j \in (k+1)..Len(arg) : arg[j] # ".")
                  => /\ Len(ret) = Len(arg) - k + 1
                     /\ \A i \in 1..Len(ret) : IsLowerOf(ret[i], arg[k + i - 1])
        /\ (\A k \in 1..Len(arg) : arg[k] # ".") => ret = << >>
        /\ arg = file_txt => ret = <<".","t","x","t">>
        /\ arg = archive_tar_gz => ret = <<".","g","z">>
        /\ arg = A_TXT => ret = <<".","t","x","t">>
        /\ arg = README => ret = << >>

\* "archive.tar.gz" gave ".gz"
C9_Witness ==
    fn = "extractExtension" /\ arg = archive_tar_gz /\ ret = <<".","g","z">>

\* C10: a file name that begins with '.' and has no other '.' yields the
\* whole name as its extension (in its own or in lower case), not the empty
\* string.
C10_DotfileWholeName ==
    (/\ fn = "extractExtension"
     /\ Len(arg) >= 2
     /\ arg[1] = "."
     /\ \A k \in 2..Len(arg) : arg[k] # ".")
        => (ret = arg \/ ret = transformToLower(arg))

\* the positions of the input whose record has fingerprint h
IdxOf(h) == { i \in 1..Len(files) : generateSimpleHash(files[i]) = h }

\* the k-th smallest member of a set of positions
KthOf(S, k) == CHOOSE i \in S : Cardinality({ j \in S : j < i }) = k - 1

\* the records of a vector
Range(seq) == { seq[i] : i \in 1..Len(seq) }

\* C11: findDuplicates returns one group for each fingerprint that two or
\* more input records have and none for any other; a group is the
\* subsequence of the input records with that fingerprint, in input order;
\* no record is in two groups; an input of pairwise-distinct (size, name)
\* pairs gives an empty result.
C11_DuplicateGroups ==
    fn = "findDuplicates" =>
        /\ DOMAIN ret = { h \in { generateSimpleHash(files[i]) : i \in 1..Len(files) } :
                            Cardinality(IdxOf(h)) >= 2 }
        /\ \A h \in DOMAIN ret :
              /\ Len(ret[h]) = Cardinality(IdxOf(h))
              /\ \A k \in 1..Len(ret[h]) : ret[h][k] = files[KthOf(IdxOf(h), k)]
        /\ \A g, h \in DOMAIN ret : g # h => Range(ret[g]) \cap Range(ret[h]) = {}
        /\ (\A i, j \in 1..Len(files) :
               i # j => (files[i].size # files[j].size \/ files[i].name # files[j].name))
              => DOMAIN ret = {}

\* three records were grouped: the first and the third, at different paths,
\* form the one group, in that order, and the second is in no group
C11_Witness ==
    /\ fn = "findDuplicates"
    /\ Len(files) = 3
    /\ \E h \in DOMAIN ret :
         /\ DOMAIN ret = {h}
         /\ ret[h] = << files[1], files[3] >>
         /\ files[1].path # files[3].path
         /\ files[2] \notin Range(ret[h])

\* C12: the fingerprints of two records are equal exactly when their size
\* and their name are equal (FileInfo::operator==), whatever their paths, and
\* two input records share a duplicate group exactly in that case.
C12_FingerprintIffSizeAndName ==
    /\ fn = "generateSimpleHash" =>
          /\ (ret[1] = ret[2]) <=> FileInfoEquals(files[1], files[2])
          /\ (ret[1] = ret[2]) <=>
                (files[1].size = files[2].size /\ files[1].name = files[2].name)
    /\ fn = "findDuplicates" =>
          \A i, j \in 1..Len(files) :
              i # j =>
                 ((\E h \in DOMAIN ret : {files[i], files[j]} \subseteq Range(ret[h]))
                     <=> (files[i].size = files[j].size /\ files[i].name = files[j].name))

\* size 1 with name "1_a" and size 11 with name "_a" got different fingerprints
C12_Witness ==
    /\ fn = "generateSimpleHash"
    /\ files[1].size = 1 /\ files[1].name = <<"1","_","a">>
    /\ files[2].size = 11 /\ files[2].name = <<"_","a">>
    /\ ret[1] # ret[2]

\* term occurs in name at offset k when the letter case is ignored
OccursAt(term, name, k) ==
    \A j \in 1..Len(term) :
        \/ term[j] = name[k + j]
        \/ IsLowerOf(term[j], name[k + j])
        \/ IsLowerOf(name[k + j], term[j])

\* the positions of the input whose name contains the term
MatchIdx(term) ==
    { i \in 1..Len(files) :
        \E k \in 0..(Len(files[i].name) - Len(term)) : OccursAt(term, files[i].name, k) }

\* C13: searchByName returns the subsequence of the input records, in input
\* order, whose lowercased name contains the lowercased term; the empty term
\* returns every record; every record returned is an input record.
C13_SearchByName ==
    fn = "searchByName" =>
        LET matching == MatchIdx(arg)
        IN  /\ Len(ret) = Cardinality(matching)
            /\ \A k \in 1..Len(ret) : ret[k] = files[KthOf(matching, k)]
            /\ arg = << >> => ret = files
            /\ Range(ret) \subseteq Range(files)

\* the term "_A" was searched in three records: the first ("1_a") and the
\* third ("_a") were returned in that order, the second ("A") was not
C13_Witness ==
    /\ fn = "searchByName"
    /\ arg = <<"_","A">>
    /\ Len(files) = 3
    /\ files[1].name = <<"1","_","a">>
    /\ files[2].name = <<"A">>
    /\ files[3].name = <<"_","a">>
    /\ ret = << files[1], files[3] >>

\* the regular files that are immediate children of the managed directory
RegularChildren == { p \in DOMAIN fs : Len(p) = 2 /\ IsFile(fs, p) }

\* scanDirectory returned from its normal path and nothing ran since
ScanOk == pc = "idle" /\ lastOp = "scan" /\ scanOutcome = "ok"

\* the record of the regular file at p, and the zero-valued record
RecordOf(p) ==
    [name |-> Last(p), path |-> p, extension |-> extractExtension(Last(p)),
     size |-> fs[p].size, hash |-> << >>]
ZeroRecord ==
    [name |-> << >>, path |-> << >>, extension |-> << >>, size |-> 0, hash |-> << >>]

\* C15: a successful scanDirectory fully replaces the collection. It then
\* holds one record per regular file that is an immediate child of the
\* directory (the file's own record, or the zero-valued record of a file
\* whose metadata could not be read), none for a directory or a file in a
\* subdirectory, and none of an earlier scan.
C15_ScanReplacesCollection ==
    ScanOk =>
        /\ Len(files) = Cardinality(RegularChildren)
        /\ \A i \in 1..Len(files) :
              \/ files[i] = ZeroRecord
              \/ files[i].path \in RegularChildren /\ files[i] = RecordOf(files[i].path)
        /\ \A i, j \in 1..Len(files) :
              (i # j /\ files[i].path = files[j].path) => files[i] = ZeroRecord

\* a scan returned after organizeByExtension moved a recorded file: the
\* directory holds a category folder with that file in it, and the
\* collection holds only the record of the file that stayed
C15_Witness ==
    /\ ScanOk
    /\ \E p \in DOMAIN fs :
         Len(p) = 3 /\ IsFile(fs, p) /\ fs[p].content = <<"src", p[3]>>
    /\ Len(files) = 1
    /\ files[1] = RecordOf(files[1].path)

\* C16: after scanDirectory returns, the value it returned is the number of
\* records in the collection, so a scan that returned 0 left the collection
\* empty.
C16_ReturnEqualsCount ==
    (pc = "idle" /\ lastOp = "scan") =>
        /\ scanRet = Len(files)
        /\ scanRet = 0 => files = << >>

C18_MetadataFailureGivesZeroRecord ==
    [][ pc = "scanning" =>
          \/ files' = files
          \/ \E entry \in pending :
                /\ IsFile(fs, entry)
                /\ pending' = pending \ {entry}
                /\ pc' = "scanning"
                /\ files' \in { Append(files, ZeroRecord), Append(files, RecordOf(entry)) }
                /\ (logOpen /\ Len(log') = Len(log) + 2)
                      => (/\ files' = Append(files, ZeroRecord)
                          /\ log'[Len(log) + 1].msg = "ERROR reading file info: ") ]_vars

\* a scan returned 2: the first record is zero-valued, the second is the
\* record of a file read after it
C18_Witness ==
    /\ ScanOk
    /\ scanRet = 2
    /\ files[1] = ZeroRecord
    /\ files[2] # ZeroRecord
    /\ files[2] = RecordOf(files[2].path)

\* C14: in every run of the menu, searchByName is never invoked with an
\* empty term and never on an empty collection: a call that was made had a
\* non-empty term and records to search, and no "Searching for files
\* containing" line with an empty term is logged.
C14_MenuRejectsEmptyTerm ==
    /\ fn = "searchByName" => (arg # << >> /\ files # << >>)
    /\ \A i \in 1..Len(log) :
          log[i].msg = "Searching for files containing: "
             => (log[i].term # << >> /\ files # << >>)

\* with records in the collection the user entered an empty term:
\* handleSearchFiles returned, nothing was searched and nothing logged
C14_Witness ==
    /\ menu = "prompt"
    /\ fn = "handleSearchFiles"
    /\ arg = << >>
    /\ files # << >>
    /\ ret = << >>
    /\ log = << >>

\* the records of the collection whose file is no longer where they say
StaleRecords ==
    { i \in 1..Len(files) : files[i].path # << >> /\ ~IsFile(fs, files[i].path) }

\* C19: in the menu a confirmed organize is followed by a rescan before the
\* next choice is read: handleOrganizeFiles leaves organizeByExtension only
\* into the rescan, the rescan ends at the prompt with scanDirectory
\* returned, a confirmed organize leads to that prompt, and whenever the
\* menu reads a choice, or a search, a duplicate detection or a display has
\* run, the collection holds no record of a file that organize moved.
C19_RescanAfterOrganize ==
    /\ [][ (menu = "organize" /\ menu' # "organize")
              => (menu' = "rescan" /\ pc' = "idle") ]_vars
    /\ [][ (menu = "rescan" /\ menu' # "rescan")
              => (menu' = "prompt" /\ pc' = "idle" /\ lastOp' = "scan") ]_vars
    /\ [](menu = "prompt" => StaleRecords = {})
    /\ [](fn \in { "searchByName", "findDuplicates", "displayFiles" }
             => StaleRecords = {})
    /\ (menu = "organize") ~> (menu = "prompt" /\ lastOp = "scan")

\* after a confirmed organize moved a recorded file into its category
\* folder, the rescan returned and a search ran on the refreshed collection,
\* which holds no record of the moved file
C19_Witness ==
    /\ menu = "prompt"
    /\ lastOp = "scan"
    /\ fn = "searchByName"
    /\ files # << >>
    /\ \E p \in DOMAIN fs :
         /\ Len(p) = 3 /\ IsFile(fs, p) /\ fs[p].content = <<"src", p[3]>>
         /\ \A i \in 1..Len(files) : files[i].name # p[3]

\* the threads between taking the mutex and releasing it
InsideLog == { t \in Threads : threadPc[t] \in { "locked", "stamped", "written", "done" } }

\* the pieces of the k-th line of the log
LineOf(k) == SubSeq(log, 3 * k - 2, 3 * k)

\* the number of complete lines a thread has written
LinesBy(t) ==
    Cardinality({ k \in 1..(Len(log) \div 3) : LineOf(k)[1].thread = t })

\* C20: Logger::log serializes concurrent writers. At most one thread is
\* between taking the mutex and releasing it, and it is the holder; the log
\* is a sequence of complete lines (stamp, message and endl of one call,
\* next to each other) followed at most by the unfinished line of the
\* holder; and while the file is open every call that has returned, or has
\* put its endl, wrote exactly one line.
C20_LogSerialized ==
    /\ Cardinality(InsideLog) <= 1
    /\ \A t \in InsideLog : logMutex = t
    /\ \A k \in 1..(Len(log) \div 3) :
          /\ LineOf(k)[1].part = "stamp"
          /\ LineOf(k)[2].part = "message"
          /\ LineOf(k)[3].part = "endl"
          /\ LineOf(k)[2].thread = LineOf(k)[1].thread
          /\ LineOf(k)[3].thread = LineOf(k)[1].thread
          /\ LineOf(k)[2].call = LineOf(k)[1].call
          /\ LineOf(k)[3].call = LineOf(k)[1].call
    /\ \A j, k \in 1..(Len(log) \div 3) :
          (j # k) => (LineOf(j)[1] # LineOf(k)[1])
    /\ \A i \in (3 * (Len(log) \div 3) + 1)..Len(log) :
          /\ log[i].thread = logMutex
          /\ log[i].call = threadCalls[logMutex] + 1
          /\ log[i].part = IF i % 3 = 1 THEN "stamp" ELSE "message"
    /\ \A t \in Threads :
          LinesBy(t) = IF logOpen
                       THEN threadCalls[t]
                            + (IF threadPc[t] = "done" THEN 1 ELSE 0)
                       ELSE 0

\* two lines are complete, one of each thread, and while one thread is in
\* the middle of its second line the other waits for the mutex
C20_Witness ==
    /\ Len(log) = 7
    /\ LineOf(1)[1].thread # LineOf(2)[1].thread
    /\ log[7].part = "stamp"
    /\ \E t \in Threads : threadPc[t] = "waiting" /\ logMutex # t /\ logMutex # "free"

\* the category folder createDirectoryIfNotExists was called with for the
\* i-th record
RecCategoryPath(i) == baseDirectory \o << RecCategory(i) >>

\* C23: createDirectoryIfNotExists returns true only if, on return, the path
\* is a directory: every record of the call that got past the directory
\* step (its outcome is not a directory failure) has a directory at its
\* category path.
C23_TrueOnlyIfDirectory ==
    lastOp = "organize" =>
        \A i \in 1..Len(outcomes) :
            outcomes[i] # "dirFailed" => IsDir(fs, RecCategoryPath(i))

\* the paths of the regular files of a filesystem
FilesOf(fsv) == { p \in DOMAIN fsv : IsFile(fsv, p) }

\* the records of the call that name the file at p
RecordsOf(p) == { i \in 1..Len(files) : files[i].path = p }

\* C24: organizeByExtension conserves files. From its first step to its
\* return, every regular file that was there when the call began is there
\* exactly once, with its size and content, at its path or at the
\* destination of a record that names it; there are as many regular files as
\* before (none deleted, none created); a file no record names is where it
\* was; and no step of the call changes the records.
C24_FilesConserved ==
    /\ [](lastOp = "organize" =>
            /\ \A p \in FilesOf(fs0) :
                  LET where == { q \in FilesOf(fs) : fs[q] = fs0[p] }
                  IN  /\ Cardinality(where) = 1
                      /\ where \subseteq ({p} \cup { RecDest(i) : i \in RecordsOf(p) })
                      /\ RecordsOf(p) = {} => where = {p}
            /\ Cardinality(FilesOf(fs)) = Cardinality(FilesOf(fs0)))
    /\ [][ (pc = "organizing" \/ pc' = "organizing") => files' = files ]_vars

\* a call returned that moved the file of its one record into its category
\* folder, next to a file that was in the folder before; another file of the
\* directory, which no record names, is where it was
C24_Witness ==
    /\ Returned
    /\ Len(files) = 1
    /\ outcomes = << "moved" >>
    /\ IsFile(fs, RecDest(1))
    /\ \E p \in FilesOf(fs0) : Len(p) = 2 /\ RecordsOf(p) = {} /\ fs[p] = fs0[p]
    /\ \E q \in FilesOf(fs0) : Len(q) = 3 /\ fs[q] = fs0[q]

\* a step of the loop of organizeByExtension on a zero-valued record
ZeroRecordStep ==
    pc = "organizing" /\ idx <= Len(files) /\ files[idx] = ZeroRecord

\* such a step renames nothing and leaves movedCount as it was
NothingMoved ==
    /\ movedCount' = movedCount
    /\ \A p \in DOMAIN fs :
          (IsFile(fs, p) \/ IsFile(fs', p)) => fs'[p] = fs[p]
    /\ \A p \in DOMAIN fs : IsDir(fs, p) => IsDir(fs', p)

\* C30 as stated: a zero-valued record is classified as "Others", its
\* destination is the Others folder itself, and the record is either skipped
\* as an existing destination or dropped on a directory-creation failure; it
\* never increments movedCount and never renames anything.
C30_ZeroRecordSkippedOrDropped ==
    [][ ZeroRecordStep =>
          /\ RecCategory(idx) = Others
          /\ RecDest(idx) = baseDirectory \o << Others, << >> >>
          /\ NothingMoved
          /\ Last(outcomes') \in { "skipped", "dirFailed" } ]_vars

\* C30 amended: a zero-valued record is classified as "Others", its
\* destination is the Others folder itself, and the record is skipped as an
\* existing destination, dropped on a directory-creation failure, or fails
\* with a caught error (the test of the destination throws, or "Others" is a
\* regular file and the rename of the empty path throws); it never
\* increments movedCount and never renames anything.
C30_ZeroRecordNeverMoved ==
    [][ ZeroRecordStep =>
          /\ RecCategory(idx) = Others
          /\ RecDest(idx) = baseDirectory \o << Others, << >> >>
          /\ NothingMoved
          /\ Last(outcomes') \in { "skipped", "dirFailed", "moveFailed" }
          /\ Last(outcomes') = "moveFailed" => pc' = "organizing" ]_vars

\* a call returned over a zero-valued record and the record of a file: the
\* first was skipped at the Others folder the call created, the second moved
C30_Witness ==
    /\ Returned
    /\ Len(files) = 2
    /\ \E i, j \in 1..2 :
         /\ files[i] = ZeroRecord /\ outcomes[i] = "skipped"
         /\ outcomes[j] = "moved"
    /\ IsDir(fs, baseDirectory \o << Others >>)
    /\ ~IsDir(fs0, baseDirectory \o << Others >>)
    /\ result = 1

\* a step in which the menu loop ran the handler h: the loop was at its
\* prompt, and the call, its input, its result or its log lines are new
HandlerStep(h) ==
    /\ menu = "prompt"
    /\ fn' = h
    /\ << fn, arg, ret, log >> # << fn', arg', ret', log' >>

\* the answers handleOrganizeFiles takes for a confirmation
Yes == { <<"y","e","s">>, <<"y">> }

\* C25: the menu organizes only on explicit confirmation over a non-empty
\* collection. organizeByExtension starts only from handleOrganizeFiles after
\* a "yes" or "y" in any letter case with records in the collection; for any
\* other answer, or an empty collection, the handler returns to the prompt
\* with the filesystem and the collection as they were, and no scan runs.
C25_OrganizeOnlyOnConfirmation ==
    /\ [][ (pc = "idle" /\ pc' = "organizing")
              => (/\ menu = "organize"
                  /\ files # << >>
                  /\ transformToLower(arg) \in Yes) ]_vars
    /\ [][ (menu = "prompt" /\ menu' = "organize")
              => (/\ files # << >>
                  /\ transformToLower(arg') \in Yes
                  /\ fs' = fs /\ files' = files /\ pc' = "idle") ]_vars
    /\ [][ HandlerStep("handleOrganizeFiles")
              => (/\ files = << >> \/ transformToLower(arg') \notin Yes
                  /\ menu' = "prompt" /\ pc' = "idle"
                  /\ fs' = fs /\ files' = files
                  /\ lastOp' = lastOp /\ scanRet' = scanRet) ]_vars

\* with scanned records in the collection the user answered "no": the
\* handler returned to the prompt, and the files are where the scan saw them
C25_Witness ==
    /\ menu = "prompt"
    /\ fn = "handleOrganizeFiles"
    /\ arg = <<"n","o">>
    /\ lastOp = "scan"
    /\ Len(files) = 2
    /\ \A i \in 1..2 : IsFile(fs, files[i].path) /\ Len(files[i].path) = 2

C27_CurrentIsTarget ==
    /\ currentDirectory = targetDirectory
    /\ \A i \in 1..Len(files) :
          files[i].path # << >> => Front(files[i].path) = currentDirectory

\* the confirmed organize is at work on the records of the scan: the first
\* was moved into a folder of currentDirectory
C27_Witness ==
    /\ pc = "organizing"
    /\ menu = "organize"
    /\ currentDirectory = baseDirectory
    /\ targetDirectory = baseDirectory
    /\ idx = 2
    /\ outcomes = << "moved" >>
    /\ Front(Front(RecDest(1))) = currentDirectory

\* C28: the menu loop stops only on choice 0. The loop is left only by
\* Menu::exit; every other choice, an invalid one included, and an exception
\* thrown by a handler, leave it running at its prompt; once it is left no
\* further choice is read or processed.
C28_StopsOnlyOnExit ==
    /\ [][ (menu # "exited" /\ menu' = "exited")
              => (menu = "prompt" /\ fn' = "exit") ]_vars
    /\ [][ (menu = "prompt" /\ fn' # "exit") => menu' # "exited" ]_vars
    /\ [][ HandlerStep("exception") => menu' = "prompt" ]_vars
    /\ [][ menu # "exited" ]_vars

\* the loop was left by choice 0 after a scan had filled the collection
C28_Witness ==
    /\ menu = "exited"
    /\ fn = "exit"
    /\ lastOp = "scan"
    /\ files # << >>

\* the positions of the zero-valued records of the collection
ZeroRecords == { i \in 1..Len(files) : files[i] = ZeroRecord }

\* C29: on a collection one scanDirectory produced, findDuplicates reports
\* at most one group, keyed "0_" and made of the zero-valued records, and
\* reports it exactly when two or more metadata reads failed; when every
\* read succeeded the result is empty.
C29_OnlyZeroRecordsGroup ==
    fn = "findDuplicates" =>
        /\ DOMAIN findDuplicates(files).duplicates \subseteq { <<"0", "_">> }
        /\ ret = IF Cardinality(ZeroRecords) >= 2
                 THEN << [k \in 1..Cardinality(ZeroRecords) |-> ZeroRecord] >>
                 ELSE << >>
        /\ ZeroRecords = {} => ret = << >>

\* two metadata reads failed in the scan: the two zero-valued records are
\* the one group reported
C29_Witness ==
    /\ fn = "findDuplicates"
    /\ Len(files) = 2
    /\ ret = << << ZeroRecord, ZeroRecord >> >>
    /\ generateSimpleHash(ZeroRecord) = <<"0", "_">>

\* C21: logging is fire-and-forget. While the log file is not open no log
\* call writes anything, and every step of the engine and every result is
\* what it is when logging works: a step of organizeByExtension changes the
\* filesystem and movedCount as its record and the filesystem decide,
\* scanDirectory returns the number of records when its listing goes
\* through, and searchByName and findDuplicates return what they compute from
\* the collection.
C21_LoggingFireAndForget ==
    /\ [](~logOpen => log = << >>)
    /\ [][ (pc = "organizing" /\ idx <= Len(files))
              => \E fault \in Faults :
                    LET step == ProcessRecord(fs, extensionCategories, files[idx],
                                              currentDirectory, movedCount, fault)
                    IN  /\ fs' = step.fs
                        /\ movedCount' = step.count
                        /\ pc' = step.pc
                        /\ log' = IF logOpen THEN log \o step.logs ELSE log ]_vars
    /\ [](ScanOk => scanRet = Len(files))
    /\ [](fn = "searchByName" => ret = searchByName(files, arg).results)
    /\ [](fn = "findDuplicates" =>
            LET done == findDuplicates(files).duplicates
                order == KeysInOrder(DOMAIN done)
            IN  ret = [i \in 1..Len(order) |-> done[order[i]]])

\* with the log file closed a scan, a confirmed organize that moved a file,
\* the rescan and a search that found a record all ran, and nothing was
\* logged
C21_Witness ==
    /\ ~logOpen
    /\ log = << >>
    /\ menu = "prompt"
    /\ lastOp = "scan"
    /\ fn = "searchByName"
    /\ ret # << >>
    /\ \E p \in FilesOf(fs) : Len(p) = 3 /\ fs[p].content = <<"src", p[3]>>

\* the pairs of records of one call, earlier and later, with one destination
SameDestPairs ==
    { pr \in (1..Len(files)) \X (1..Len(files)) :
        pr[1] < pr[2] /\ RecDest(pr[1]) = RecDest(pr[2]) }

====
